---- MODULE Spec2Model ----
(***************************************************************************)
(* Shop-floor tracker: attendance log, production planning with the greedy *)
(* operator assignment, and the CSV / key-value read paths.                *)
(*   src/app.py        local Flask application                             *)
(*   src/api/index.py  serverless variant of the same handlers             *)
(*   src/storage.py    storage adapter (Redis or CSV)                      *)
(***************************************************************************)
EXTENDS Integers, Sequences, FiniteSets, TLC

VARIABLES
    employees,            \* data.employees: the roster, in dict order
    attendance_log,       \* attendance_log.csv
    production_log,       \* production_log.csv
    material_log,         \* material_log.csv
    redis,                \* storage.redis_client and the store behind it
    pc,                   \* position of the request being served
    variant,              \* which module serves plan_production: "app" / "api"
    request,              \* the JSON body / query of the request being served
    present_employees,    \* plan_production: workers present for (date, shift)
    total_tasks,          \* plan_production: tasks, sorted
    idx,                  \* plan_production: index of the next task of the loop
    assignment_employees, \* plan_production: the unassigned pool
    assignments,          \* plan_production: the response's assignments list
    log_entries,          \* plan_production: rows prepared for the production log
    picks,                \* history: what each loop iteration saw and chose
    response,             \* the last response returned by a handler
    latest                \* history: last attendance submission per (date, shift)

vars == << employees, attendance_log, production_log, material_log, redis, pc,
           variant, request, present_employees, total_tasks, idx,
           assignment_employees, assignments, log_entries, picks, response,
           latest >>

planVars == << variant, request, present_employees, total_tasks, idx,
               assignment_employees, assignments, log_entries, picks >>

\* what the attendance handlers leave alone of plan_production's state
attIdle == << variant, present_employees, total_tasks, idx,
              assignment_employees, assignments, log_entries, picks >>

----------------------------------------------------------------------------
(* Bounds and input domains *)

MaxParts == 2

EmpIds == << "E1", "E2", "E3" >>
Efficiencies == {1, 2}
SkillStrings == {"CCA", "CCA, PAA"}
Dates == {"2026-01-01", "2026-01-02"}
Shifts == {"Day", "Night"}
Keys == {<<"2026-01-01", "Day">>, <<"2026-01-01", "Night">>,
         <<"2026-01-02", "Day">>}
PlanKey == <<"2026-01-01", "Day">>

\* Python's None where a worker record is expected
None == [id |-> "", name |-> "", efficiency |-> 0, trained_skills |-> ""]

Range(s) == {s[i] : i \in 1..Len(s)}

----------------------------------------------------------------------------
(* CSV files.  A file is absent, or holds a header line (or none) and rows; *)
(* every field is text.                                                     *)

AbsentFile == [exists |-> FALSE, header |-> FALSE, rows |-> << >>]
HeaderOnly == [exists |-> TRUE, header |-> TRUE, rows |-> << >>]
ZeroBytes == [exists |-> TRUE, header |-> FALSE, rows |-> << >>]

\* str(bool), as DataFrame.to_csv writes a boolean cell
BoolToCsv(b) == IF b THEN "True" ELSE "False"

\* pandas reads a column holding only True / False cells back as booleans
CsvToBool(s) == s = "True"

\* Series.astype(str).str.lower().eq('true') on a boolean column
StrLowerEqTrue(b) == (IF b THEN "true" ELSE "false") = "true"

\* pd.read_csv: an absent file raises, a file of no bytes (or of a lone line
\* break) raises EmptyDataError, and under no header the first row is taken
\* for the column names, so that no column asked for by name is found
ReadCsv(file) ==
    IF ~file.exists THEN [status |-> "FileNotFoundError", rows |-> << >>]
    ELSE IF file.header THEN [status |-> "ok", rows |-> file.rows]
    ELSE IF file.rows = << >> THEN [status |-> "EmptyDataError", rows |-> << >>]
    ELSE [status |-> "Headerless", rows |-> Tail(file.rows)]

\* mutant: pd.read_csv called unguarded
UnsafeReadCsv(file) == ReadCsv(file)

\* safe_read_csv: the file's rows, or an empty frame when the file is absent,
\* has no bytes or holds nothing to parse
SafeReadCsv(file) ==
    IF file.exists /\ ReadCsv(file).status # "EmptyDataError"
    THEN ReadCsv(file)
    ELSE [status |-> "ok", rows |-> << >>]

\* what a handler that names columns of a frame makes of it: the read itself
\* raised, or the frame has rows but not the columns (KeyError)
Raises(df) ==
    \/ df.status \in {"FileNotFoundError", "EmptyDataError"}
    \/ df.status = "Headerless" /\ df.rows # << >>

\* HTTP 500: the handler raised
ServerError(op) == [op |-> op, status |-> 500, body |-> << >>]

\* pd.read_csv of the attendance log: the rows, present parsed
ReadAttendance(file) ==
    [i \in 1..Len(file.rows) |->
        [date |-> file.rows[i].date, shift |-> file.rows[i].shift,
         emp_id |-> file.rows[i].emp_id,
         present |-> CsvToBool(file.rows[i].present)]]

----------------------------------------------------------------------------
(* Standard times (wp_data.csv): per-unit minutes of a part in a work area. *)
(* P3 has no row.                                                          *)

wp_data == << [Part_ID |-> "P1", CCA |-> 3, PAA |-> 1] >>

PartNames == [p \in {"P1", "P3"} |-> IF p = "P1" THEN "Bracket" ELSE "Panel"]

\* wp_data.loc[wp_data[header[0]] == part_id, area].values
TimePerUnit(part_id, area) ==
    LET hit == SelectSeq(wp_data, LAMBDA r : r.Part_ID = part_id)
    IN  [i \in 1..Len(hit) |-> hit[i][area]]

Items == {[part_id |-> "P1", quantity |-> 2, work_area |-> "CCA"],
          [part_id |-> "P1", quantity |-> 1, work_area |-> "PAA"],
          [part_id |-> "P3", quantity |-> 1, work_area |-> "CCA"]}

PartLists == UNION {[1..n -> Items] : n \in 0..MaxParts}

----------------------------------------------------------------------------
(* plan_production: helpers *)

\* emp["trained_skills"].split(",")
SplitComma(s) ==
    CASE s = "CCA" -> << "CCA" >>
      [] s = "PAA" -> << "PAA" >>
      [] s = "CCA, PAA" -> << "CCA", " PAA" >>
      [] OTHER -> << s >>

\* str.strip()
Strip(s) ==
    CASE s = " PAA" -> "PAA"
      [] s = " CCA" -> "CCA"
      [] OTHER -> s

\* task['work_area'] in [s.strip() for s in emp["trained_skills"].split(",")]
HasSkill(emp, area) ==
    LET parts == SplitComma(emp.trained_skills)
    IN  \E i \in 1..Len(parts) : Strip(parts[i]) = area

\* the task record built from one requested item
MakeTask(item) ==
    LET time_per_unit_min == TimePerUnit(item.part_id, item.work_area)
    IN  [part_name |-> PartNames[item.part_id],
         part_id |-> item.part_id,
         quantity |-> item.quantity,
         work_area |-> item.work_area,
         total_minutes |-> IF Len(time_per_unit_min) > 0
                           THEN time_per_unit_min[1] * item.quantity ELSE 0,
         time_per_unit |-> IF Len(time_per_unit_min) > 0
                           THEN time_per_unit_min[1] ELSE 0]

\* mutant: the sort without reverse=True
InsertAsc(sorted, x) ==
    LET before == SelectSeq(sorted, LAMBDA t : t.total_minutes <= x.total_minutes)
        after == SelectSeq(sorted, LAMBDA t : t.total_minutes > x.total_minutes)
    IN  before \o << x >> \o after

\* one insertion of the stable descending sort: x goes after every element
\* whose key is not smaller
InsertDesc(sorted, x) ==
    LET before == SelectSeq(sorted, LAMBDA t : t.total_minutes >= x.total_minutes)
        after == SelectSeq(sorted, LAMBDA t : t.total_minutes < x.total_minutes)
    IN  before \o << x >> \o after

RECURSIVE SortDesc(_)
\* total_tasks.sort(key=lambda x: x["total_minutes"], reverse=True)
SortDesc(tasks) ==
    IF tasks = << >> THEN << >>
    ELSE InsertDesc(SortDesc(SubSeq(tasks, 1, Len(tasks) - 1)), tasks[Len(tasks)])

RECURSIVE BestScanLowest(_, _, _, _)
\* mutant: the first scan with the comparison of the second
BestScanLowest(pool, area, i, best) ==
    IF i > Len(pool) THEN best
    ELSE IF HasSkill(pool[i], area)
            /\ (best = None \/ pool[i].efficiency < best.efficiency)
         THEN BestScanLowest(pool, area, i + 1, pool[i])
         ELSE BestScanLowest(pool, area, i + 1, best)

RECURSIVE BestScan(_, _, _, _)
\* the first scan: keeps the first worker with the strictly highest efficiency;
\* best = None stands for last_best_efficiency = -inf
BestScan(pool, area, i, best) ==
    IF i > Len(pool) THEN best
    ELSE IF HasSkill(pool[i], area)
            /\ (best = None \/ pool[i].efficiency > best.efficiency)
         THEN BestScan(pool, area, i + 1, pool[i])
         ELSE BestScan(pool, area, i + 1, best)

RECURSIVE SupportScanHighest(_, _, _, _)
\* mutant: the second scan with the comparison of the first
SupportScanHighest(pool, area, i, support) ==
    IF i > Len(pool) THEN support
    ELSE IF HasSkill(pool[i], area)
            /\ (support = None \/ pool[i].efficiency > support.efficiency)
         THEN SupportScanHighest(pool, area, i + 1, pool[i])
         ELSE SupportScanHighest(pool, area, i + 1, support)

RECURSIVE SupportScan(_, _, _, _)
\* the second scan: keeps the first worker with the strictly lowest efficiency;
\* support = None stands for last_support_efficiency = +inf
SupportScan(pool, area, i, support) ==
    IF i > Len(pool) THEN support
    ELSE IF HasSkill(pool[i], area)
            /\ (support = None \/ pool[i].efficiency < support.efficiency)
         THEN SupportScan(pool, area, i + 1, pool[i])
         ELSE SupportScan(pool, area, i + 1, support)

\* mutant: the chosen worker stays in the pool
RemoveNothing(pool, x) == pool

\* list.remove(x): drops the first element equal to x
Remove(pool, x) ==
    LET k == CHOOSE i \in 1..Len(pool) :
                 pool[i] = x /\ \A j \in 1..(i - 1) : pool[j] # x
    IN  SubSeq(pool, 1, k - 1) \o SubSeq(pool, k + 1, Len(pool))

\* mutant: the attendance filter without the shift
PresentIdsAnyShift(file, date, shift) ==
    LET att_df == ReadAttendance(file)
        hit == SelectSeq(att_df, LAMBDA r : r.date = date /\ r.present = TRUE)
    IN  [i \in 1..Len(hit) |-> hit[i].emp_id]

\* the rows of the attendance log that make a worker present
PresentIds(file, date, shift) ==
    LET att_df == ReadAttendance(file)
        hit == SelectSeq(att_df, LAMBDA r :
                   r.date = date /\ r.shift = shift /\ r.present = TRUE)
    IN  [i \in 1..Len(hit) |-> hit[i].emp_id]

\* [.. for eid, emp in employees.items() if eid in present_ids]
PresentEmployees(present_ids) ==
    SelectSeq(employees, LAMBDA e : e.id \in Range(present_ids))

\* "support_operator": support["name"] if support else "None"   (api/index.py)
\* "support_operator": support["name"]                            (app.py)
SupportName(v, support) ==
    IF support # None THEN support.name
    ELSE IF v = "api" THEN "None" ELSE "TypeError"

----------------------------------------------------------------------------
(* plan_production *)

NoRequest == [date |-> "", shift |-> "", parts |-> << >>, replaced |-> FALSE]
NoResponse == [op |-> "", status |-> 0, body |-> << >>]

\* the handler up to the start of the assignment loop; pd.read_csv of the
\* attendance log raises before anything is planned when the file cannot be read
PlanStart(v, date, shift, selected_parts) ==
    /\ pc = "idle"
    /\ ReadCsv(attendance_log).status = "ok"
    /\ LET present_ids == PresentIds(attendance_log, date, shift)
           present == PresentEmployees(present_ids)
           tasks == [i \in 1..Len(selected_parts) |-> MakeTask(selected_parts[i])]
       IN  /\ variant' = v
           /\ request' = [date |-> date, shift |-> shift, parts |-> selected_parts,
                          replaced |-> FALSE]
           /\ present_employees' = present
           /\ total_tasks' = SortDesc(tasks)
           /\ assignment_employees' = present
    /\ idx' = 1
    /\ assignments' = << >>
    /\ log_entries' = << >>
    /\ picks' = << >>
    /\ pc' = "loop"
    /\ UNCHANGED << employees, attendance_log, production_log, material_log,
                    redis, response, latest >>

\* one iteration of "for task in total_tasks"
PlanTask ==
    /\ pc = "loop"
    /\ idx <= Len(total_tasks)
    /\ LET task == total_tasks[idx]
           best_operator == BestScan(assignment_employees, task.work_area, 1, None)
           pool1 == IF best_operator # None
                    THEN Remove(assignment_employees, best_operator)
                    ELSE assignment_employees
           support_operator == SupportScan(pool1, task.work_area, 1, None)
           pool2 == IF support_operator # None
                    THEN Remove(pool1, support_operator) ELSE pool1
           task_assignments ==
               IF best_operator # None
               THEN << [best_operator |-> best_operator.name,
                        support_operator |-> SupportName(variant, support_operator)] >>
               ELSE << >>
           \* part_id, area and qty still hold the last requested item
           last == request.parts[Len(request.parts)]
           raised == best_operator # None
                     /\ SupportName(variant, support_operator) = "TypeError"
       IN  /\ assignment_employees' = pool2
           /\ picks' = Append(picks, [task |-> task,
                                      pool |-> assignment_employees,
                                      best |-> best_operator,
                                      pool_after_best |-> pool1,
                                      support |-> support_operator])
           /\ IF raised
              THEN /\ pc' = "crashed"
                   /\ response' = [op |-> "plan_production", status |-> 500,
                                   body |-> << >>]
                   /\ UNCHANGED << assignments, log_entries, idx >>
              ELSE /\ assignments' = Append(assignments,
                          [part |-> task.part_name, quantity |-> task.quantity,
                           work_area |-> task.work_area,
                           operators |-> task_assignments])
                   /\ log_entries' = Append(log_entries,
                          [date |-> request.date, shift |-> request.shift,
                           part_id |-> last.part_id, work_area |-> last.work_area,
                           plan_qty |-> last.quantity, actual_qty |-> 0,
                           efficiency |-> 0])
                   /\ idx' = idx + 1
                   /\ UNCHANGED << pc, response >>
    /\ UNCHANGED << employees, attendance_log, production_log, material_log,
                    redis, variant, request, present_employees, total_tasks,
                    latest >>

\* mutant: to_csv in the default mode 'w'
OverwriteCsv(file, rows) ==
    [exists |-> TRUE, header |-> rows # << >>, rows |-> rows]

\* log_df.to_csv(path, mode='a', header=not os.path.exists(path), index=False)
AppendCsv(file, rows) ==
    [exists |-> TRUE,
     header |-> IF file.exists THEN file.header ELSE rows # << >>,
     rows |-> file.rows \o rows]

\* after the loop: the plan is appended to the production log and returned
PlanFinish ==
    /\ pc = "loop"
    /\ idx > Len(total_tasks)
    /\ production_log' = AppendCsv(production_log, log_entries)
    /\ response' = [op |-> "plan_production", status |-> 200,
                    body |-> [assignments |-> assignments,
                              present_count |-> Len(present_employees)]]
    /\ pc' = "done"
    /\ UNCHANGED << employees, attendance_log, material_log, redis, latest >>
    /\ UNCHANGED planVars

----------------------------------------------------------------------------
(* Planning specification: any roster, any attendance log, one request *)

Profiles == [efficiency : Efficiencies, trained_skills : SkillStrings]

Rosters ==
    {[i \in 1..Len(EmpIds) |->
         [id |-> EmpIds[i], name |-> "W-" \o EmpIds[i],
          efficiency |-> f[i].efficiency,
          trained_skills |-> f[i].trained_skills]] :
     f \in [1..Len(EmpIds) -> Profiles]}

\* one attendance row per worker: present or absent for the planned shift, or
\* present for another shift or another date
RowChoices ==
    {[date |-> "2026-01-01", shift |-> "Day", present |-> "True"],
     [date |-> "2026-01-01", shift |-> "Day", present |-> "False"],
     [date |-> "2026-01-01", shift |-> "Night", present |-> "True"],
     [date |-> "2026-01-02", shift |-> "Day", present |-> "True"]}

PlanLogs ==
    {[exists |-> TRUE, header |-> TRUE,
      rows |-> [i \in 1..Len(EmpIds) |->
                   [date |-> g[i].date, shift |-> g[i].shift,
                    emp_id |-> EmpIds[i], present |-> g[i].present]]] :
     g \in [1..Len(EmpIds) -> RowChoices]}

NoRedis == [client |-> FALSE, raises |-> FALSE, att |-> << >>, prod |-> << >>,
            mat |-> << >>]

InitPlan ==
    /\ employees \in Rosters
    /\ attendance_log \in PlanLogs
    /\ production_log = HeaderOnly
    /\ material_log = HeaderOnly
    /\ redis = NoRedis
    /\ pc = "idle"
    /\ variant = "api"
    /\ request = NoRequest
    /\ present_employees = << >>
    /\ total_tasks = << >>
    /\ idx = 1
    /\ assignment_employees = << >>
    /\ assignments = << >>
    /\ log_entries = << >>
    /\ picks = << >>
    /\ response = NoResponse
    /\ latest = << >>

NextPlan ==
    \/ \E v \in {"app", "api"}, selected_parts \in PartLists :
           PlanStart(v, PlanKey[1], PlanKey[2], selected_parts)
    \/ PlanTask
    \/ PlanFinish

SpecPlan == InitPlan /\ [][NextPlan]_vars

----------------------------------------------------------------------------
(* Claims about plan_production, stated without the handler's own helpers *)

\* the work areas a trained_skills text names
Trained(emp) ==
    CASE emp.trained_skills = "CCA" -> {"CCA"}
      [] emp.trained_skills = "PAA" -> {"PAA"}
      [] emp.trained_skills = "CCA, PAA" -> {"CCA", "PAA"}
      [] OTHER -> {}

Matching(pool, area) == {w \in Range(pool) : area \in Trained(w)}

\* per-unit standard minutes of a part in an area, 0 when it has none
StdMinutes(part_id, area) ==
    IF part_id = "P1" THEN (IF area = "CCA" THEN 3 ELSE 1) ELSE 0

\* C1: the primary of every task is a pool member trained for the task's area
\* whose efficiency is at least that of every trained pool member, and a
\* primary is chosen whenever the pool holds a trained worker.
C1_PrimaryIsBest ==
    \A i \in 1..Len(picks) :
        LET p == picks[i]
            cand == Matching(p.pool, p.task.work_area)
        IN  /\ (cand # {}) <=> (p.best # None)
            /\ p.best # None =>
                   /\ p.best \in cand
                   /\ \A w \in cand : p.best.efficiency >= w.efficiency

\* a task whose pool held two trained workers of different efficiency
C1_Witness ==
    \E i \in 1..Len(picks) :
        /\ picks[i].best # None
        /\ \E w \in Matching(picks[i].pool, picks[i].task.work_area) :
               w.efficiency < picks[i].best.efficiency
        /\ \E w \in Range(picks[i].pool) :
               picks[i].task.work_area \notin Trained(w)

\* C2: the secondary of every task is taken from the pool without the primary,
\* is trained for the area, has an efficiency no higher than any trained
\* worker of that pool, and is never the primary.
C2_SecondaryIsLowest ==
    \A i \in 1..Len(picks) :
        LET p == picks[i]
            cand == Matching(p.pool_after_best, p.task.work_area)
        IN  /\ p.best # None =>
                   /\ Range(p.pool_after_best) = Range(p.pool) \ {p.best}
                   /\ Len(p.pool_after_best) = Len(p.pool) - 1
            /\ (cand # {}) <=> (p.support # None)
            /\ p.support # None =>
                   /\ p.support \in cand
                   /\ \A w \in cand : p.support.efficiency <= w.efficiency
                   /\ p.support.id # p.best.id

\* a task whose remaining pool held two trained workers of different efficiency
C2_Witness ==
    \E i \in 1..Len(picks) :
        /\ picks[i].support # None
        /\ \E w \in Matching(picks[i].pool_after_best, picks[i].task.work_area) :
               w.efficiency > picks[i].support.efficiency

\* the workers assigned so far, one entry per role filled
Assigned ==
    LET roleOf(k) == IF k % 2 = 1 THEN picks[(k + 1) \div 2].best
                                  ELSE picks[k \div 2].support
        all == [k \in 1..(2 * Len(picks)) |-> roleOf(k)]
    IN  SelectSeq(all, LAMBDA w : w # None)

\* C3: no worker fills two roles of a request, and at every step the pool and
\* the assigned workers together are exactly the present workers.
C3_AssignedOnce ==
    pc \in {"loop", "done", "crashed"} =>
        /\ \A a, b \in 1..Len(Assigned) : a # b => Assigned[a].id # Assigned[b].id
        /\ Len(assignment_employees) + Len(Assigned) = Len(present_employees)
        /\ Range(assignment_employees) \cup Range(Assigned) = Range(present_employees)

\* a finished request of two tasks that used up three workers
C3_Witness ==
    /\ pc = "done"
    /\ Len(picks) = 2
    /\ Len(Assigned) = 3
    /\ assignment_employees = << >>

\* C4: tasks are handled, and reported, in order of non-increasing estimated
\* duration, the duration being standard minutes times quantity.
C4_LongestFirst ==
    pc \in {"loop", "done", "crashed"} =>
        /\ Len(total_tasks) = Len(request.parts)
        /\ \A it \in Range(request.parts) :
               Cardinality({i \in 1..Len(total_tasks) :
                               /\ total_tasks[i].part_id = it.part_id
                               /\ total_tasks[i].quantity = it.quantity
                               /\ total_tasks[i].work_area = it.work_area})
               = Cardinality({i \in 1..Len(request.parts) : request.parts[i] = it})
        /\ \A i \in 1..Len(total_tasks) :
               total_tasks[i].total_minutes =
                   StdMinutes(total_tasks[i].part_id, total_tasks[i].work_area)
                   * total_tasks[i].quantity
        /\ \A i, j \in 1..Len(total_tasks) :
               i < j => total_tasks[i].total_minutes >= total_tasks[j].total_minutes
        /\ \A i \in 1..Len(picks) : picks[i].task = total_tasks[i]
        /\ \A i \in 1..Len(assignments) :
               /\ assignments[i].part = total_tasks[i].part_name
               /\ assignments[i].quantity = total_tasks[i].quantity
               /\ assignments[i].work_area = total_tasks[i].work_area

\* a finished request whose longer task was requested last and served first
C4_Witness ==
    /\ pc = "done"
    /\ Len(request.parts) = 2
    /\ MakeTask(request.parts[1]).total_minutes < MakeTask(request.parts[2]).total_minutes
    /\ picks[1].task.part_id = request.parts[2].part_id
    /\ picks[1].best # None
    /\ Len(assignments) = 2

\* the attendance log records the worker present for the date and shift
RecordedPresent(id, date, shift) ==
    \E i \in 1..Len(attendance_log.rows) :
        attendance_log.rows[i] =
            [date |-> date, shift |-> shift, emp_id |-> id, present |-> "True"]

\* names of the operators a response entry lists
NamedIn(entry) ==
    UNION {{entry.operators[k].best_operator, entry.operators[k].support_operator} :
           k \in 1..Len(entry.operators)} \ {"None"}

\* C5: every operator of a plan is a roster employee recorded present for the
\* requested date and shift and trained for the area of the task.
C5_OnlyPresentTrained ==
    /\ \A i \in 1..Len(picks) : \A w \in {picks[i].best, picks[i].support} \ {None} :
           /\ w \in Range(employees)
           /\ RecordedPresent(w.id, request.date, request.shift)
           /\ picks[i].task.work_area \in Trained(w)
    /\ \A i \in 1..Len(assignments) : \A n \in NamedIn(assignments[i]) :
           \E w \in Range(employees) :
               /\ w.name = n
               /\ w \in {picks[i].best, picks[i].support}
               /\ RecordedPresent(w.id, request.date, request.shift)
               /\ assignments[i].work_area \in Trained(w)

\* a plan made while a trained worker was absent and another was present only
\* for another shift or date
C5_Witness ==
    /\ pc = "done"
    /\ \E i \in 1..Len(assignments) : NamedIn(assignments[i]) # {}
    /\ \E w \in Range(employees) :
           /\ [date |-> request.date, shift |-> request.shift, emp_id |-> w.id,
               present |-> "False"] \in Range(attendance_log.rows)
           /\ total_tasks[1].work_area \in Trained(w)
    /\ \E w \in Range(employees), i \in 1..Len(attendance_log.rows) :
           /\ attendance_log.rows[i].emp_id = w.id
           /\ attendance_log.rows[i].present = "True"
           /\ << attendance_log.rows[i].date, attendance_log.rows[i].shift >>
                  # << request.date, request.shift >>
           /\ total_tasks[1].work_area \in Trained(w)

\* C6: plan_production completes for every request and returns one entry per
\* requested item, holding one primary/support pair when a trained worker
\* remained (support "None" when no second one did) and no pair otherwise.
C6_AlwaysCompletes ==
    /\ pc # "crashed"
    /\ pc = "done" =>
           /\ response.status = 200
           /\ Len(response.body.assignments) = Len(request.parts)
           /\ \A i \in 1..Len(assignments) :
                  LET ops == assignments[i].operators
                  IN  IF picks[i].best = None THEN ops = << >>
                      ELSE /\ Len(ops) = 1
                           /\ ops[1].best_operator = picks[i].best.name
                           /\ ops[1].support_operator =
                                  IF picks[i].support = None THEN "None"
                                  ELSE picks[i].support.name

----------------------------------------------------------------------------
(* Attendance: mark_attendance and get_attendance of app.py and api/index.py *)

MAX_EMPLOYEES == 23

\* the employee part of a request body: a map emp_id -> present over some
\* of the first two roster employees, in roster order
Submissions ==
    {d \in UNION {[1..n -> [emp_id : {EmpIds[1], EmpIds[2]}, present : BOOLEAN]] :
                     n \in 0..2} :
        \A i, j \in 1..Len(d) : i < j => d[i].emp_id = EmpIds[1] /\ d[j].emp_id = EmpIds[2]}

\* the rows built from the request body, as to_csv writes them
NewRows(date, shift, data) ==
    [i \in 1..Len(data) |->
        [date |-> date, shift |-> shift, emp_id |-> data[i].emp_id,
         present |-> BoolToCsv(data[i].present)]]

\* mutant: the removal of existing entries by date alone
DropDate(rows, date, shift) ==
    SelectSeq(rows, LAMBDA r : ~(r.date = date))

\* existing_df[~((existing_df['date'] == date) & (existing_df['shift'] == shift))]
DropKey(rows, date, shift) ==
    SelectSeq(rows, LAMBDA r : ~(r.date = date /\ r.shift = shift))

\* present_count of the loop over data.items()
PresentCount(data) == Cardinality({i \in 1..Len(data) : data[i].present})

\* mutant: the count over the whole persisted log
SavedPresentCountAll(file, date, shift) ==
    LET saved_df == ReadAttendance(file)
    IN  Cardinality({saved_df[i].emp_id : i \in
            {j \in 1..Len(saved_df) : StrLowerEqTrue(saved_df[j].present)}})

\* saved_df[saved_mask & present_mask]['emp_id'].nunique()
SavedPresentCount(file, date, shift) ==
    LET saved_df == ReadAttendance(file)
    IN  Cardinality({saved_df[i].emp_id : i \in
            {j \in 1..Len(saved_df) :
                /\ saved_df[j].date = date /\ saved_df[j].shift = shift
                /\ StrLowerEqTrue(saved_df[j].present)}})

\* round(float(count / total * 100), 1), in tenths of a percent
PctTenths(count, total) ==
    IF total > 0 THEN (2000 * count + total) \div (2 * total) ELSE 0

Min(a, b) == IF a <= b THEN a ELSE b

\* what the history keeps of a submission
Submitted(date, shift, data) == [latest EXCEPT ![<< date, shift >>] = data]

\* the request body, and whether the log held rows of its date and shift
MarkRequest(date, shift, data) ==
    [date |-> date, shift |-> shift, parts |-> data,
     replaced |-> \E i \in 1..Len(attendance_log.rows) :
                     /\ attendance_log.rows[i].date = date
                     /\ attendance_log.rows[i].shift = shift]

GetRequest(date, shift) ==
    [date |-> date, shift |-> shift, parts |-> << >>, replaced |-> FALSE]

MarkResponse(v, date, shift, count, total) ==
    [op |-> v \o ".mark_attendance", status |-> 200,
     body |-> [status |-> "success", count |-> count, total |-> total,
               attendance_pct |-> PctTenths(count, total),
               date |-> date, shift |-> shift]]

\* app.py mark_attendance
MarkAttendanceApp(date, shift, data) ==
    /\ pc = "idle"
    /\ LET df == NewRows(date, shift, data)
           existing_df == SafeReadCsv(attendance_log)
           capped_count == Min(PresentCount(data), MAX_EMPLOYEES)
       IN  IF Raises(existing_df)
           THEN /\ response' = ServerError("app.mark_attendance")
                /\ UNCHANGED << attendance_log, latest >>
           ELSE /\ attendance_log' =
                       [exists |-> TRUE, header |-> TRUE,
                        rows |-> (IF existing_df.rows # << >>
                                  THEN DropKey(existing_df.rows, date, shift)
                                  ELSE existing_df.rows) \o df]
                /\ response' = MarkResponse("app", date, shift, capped_count,
                                            MAX_EMPLOYEES)
                /\ latest' = Submitted(date, shift, data)
    /\ request' = MarkRequest(date, shift, data)
    /\ UNCHANGED << employees, production_log, material_log, redis, pc >>
    /\ UNCHANGED attIdle

\* api/index.py mark_attendance
MarkAttendanceApi(date, shift, data) ==
    /\ pc = "idle"
    /\ LET df == NewRows(date, shift, data)
           existing_df == ReadCsv(attendance_log)
           written ==
               IF attendance_log.exists
               THEN [exists |-> TRUE, header |-> TRUE,
                     rows |-> DropKey(existing_df.rows, date, shift) \o df]
               ELSE [exists |-> TRUE, header |-> df # << >>, rows |-> df]
       IN  IF attendance_log.exists /\ existing_df.status # "ok"
           THEN /\ response' = ServerError("api.mark_attendance")
                /\ UNCHANGED << attendance_log, latest >>
           ELSE /\ attendance_log' = written
                /\ latest' = Submitted(date, shift, data)
                /\ response' =
                       IF ReadCsv(written).status # "ok"
                       THEN ServerError("api.mark_attendance")
                       ELSE MarkResponse("api", date, shift,
                                SavedPresentCount(written, date, shift),
                                Len(employees))
    /\ request' = MarkRequest(date, shift, data)
    /\ UNCHANGED << employees, production_log, material_log, redis, pc >>
    /\ UNCHANGED attIdle

\* mutant: the filter of get_attendance without the shift
FilterDate(rows, date, shift) ==
    SelectSeq(rows, LAMBDA r : r.date = date)

\* df[(df['date'] == date) & (df['shift'] == shift)]
FilterKey(rows, date, shift) ==
    SelectSeq(rows, LAMBDA r : r.date = date /\ r.shift = shift)

\* dict(zip(filtered.emp_id, filtered.present)): the last row of an employee
\* decides; a set of (emp_id, present) pairs
AttendanceDict(filtered) ==
    {<< filtered[i].emp_id, filtered[i].present >> : i \in
        {j \in 1..Len(filtered) :
            \A k \in (j + 1)..Len(filtered) : filtered[k].emp_id # filtered[j].emp_id}}

GetResponse(op, date, shift, dict) ==
    [op |-> op, status |-> 200,
     body |-> [date |-> date, shift |-> shift, attendance |-> dict]]

\* app.py get_attendance
GetAttendanceApp(date, shift) ==
    /\ pc = "idle"
    /\ LET df == SafeReadCsv(attendance_log)
       IN  response' =
               IF Raises(df) THEN ServerError("app.get_attendance")
               ELSE IF df.rows = << >>
               THEN GetResponse("app.get_attendance", date, shift, {})
               ELSE GetResponse("app.get_attendance", date, shift,
                        AttendanceDict(FilterKey(
                            ReadAttendance(attendance_log), date, shift)))
    /\ request' = GetRequest(date, shift)
    /\ UNCHANGED << employees, attendance_log, production_log, material_log,
                    redis, pc, latest >>
    /\ UNCHANGED attIdle

\* api/index.py get_attendance
GetAttendanceApi(date, shift) ==
    /\ pc = "idle"
    /\ response' =
           IF ~attendance_log.exists
           THEN GetResponse("api.get_attendance", date, shift, {})
           ELSE IF ReadCsv(attendance_log).status # "ok"
           THEN ServerError("api.get_attendance")
           ELSE GetResponse("api.get_attendance", date, shift,
                    AttendanceDict(FilterKey(
                        ReadAttendance(attendance_log), date, shift)))
    /\ request' = GetRequest(date, shift)
    /\ UNCHANGED << employees, attendance_log, production_log, material_log,
                    redis, pc, latest >>
    /\ UNCHANGED attIdle

DefaultRoster ==
    [i \in 1..Len(EmpIds) |->
        [id |-> EmpIds[i], name |-> "W-" \o EmpIds[i], efficiency |-> 1,
         trained_skills |-> "CCA"]]

InitAtt ==
    /\ employees = DefaultRoster
    /\ attendance_log = HeaderOnly
    /\ production_log = HeaderOnly
    /\ material_log = HeaderOnly
    /\ redis = NoRedis
    /\ pc = "idle"
    /\ variant = "api"
    /\ request = NoRequest
    /\ present_employees = << >>
    /\ total_tasks = << >>
    /\ idx = 1
    /\ assignment_employees = << >>
    /\ assignments = << >>
    /\ log_entries = << >>
    /\ picks = << >>
    /\ response = NoResponse
    /\ latest = [k \in Keys |-> << >>]

NextAtt ==
    \/ \E k \in Keys, data \in Submissions : MarkAttendanceApp(k[1], k[2], data)
    \/ \E k \in Keys, data \in Submissions : MarkAttendanceApi(k[1], k[2], data)
    \/ \E k \in Keys : GetAttendanceApp(k[1], k[2])
    \/ \E k \in Keys : GetAttendanceApi(k[1], k[2])

SpecAtt == InitAtt /\ [][NextAtt]_vars

----------------------------------------------------------------------------------------------------------------------------------------
(* storage.py: the read functions, on the Redis and on the CSV backend *)

NoShift == "<no shift>"

\* redis_client.get(key) followed by "json.loads(data) if data else <empty>";
\* store maps the keys that are set to their decoded values
RedisGet(store, key, empty) ==
    IF redis.raises THEN [status |-> "raised", value |-> empty]
    ELSE IF key \in DOMAIN store THEN [status |-> "ok", value |-> store[key]]
    ELSE [status |-> "ok", value |-> empty]

\* df[mask].to_dict('records') of the production log
ProductionRecords(file, date, shift) ==
    SelectSeq(file.rows, LAMBDA r :
        r.date = date /\ (shift # NoShift => r.shift = shift))

\* storage.get_attendance
GetAttendanceResult(date, shift) ==
    [op |-> "storage.get_attendance", status |-> 200,
     body |-> IF redis.client
              THEN RedisGet(redis.att, << date, shift >>, {}).value
              ELSE IF ReadCsv(attendance_log).status = "ok"
              THEN AttendanceDict(FilterKey(ReadAttendance(attendance_log),
                                            date, shift))
              ELSE {}]

\* storage.get_production
GetProductionResult(date, shift) ==
    [op |-> "storage.get_production", status |-> 200,
     body |-> IF redis.client
              THEN (IF shift # NoShift
                    THEN RedisGet(redis.prod, << date, shift >>, << >>).value
                    ELSE RedisGet(redis.prod, << date, "Day" >>, << >>).value
                         \o RedisGet(redis.prod, << date, "Night" >>, << >>).value)
              ELSE IF ReadCsv(production_log).status = "ok"
              THEN ProductionRecords(production_log, date, shift)
              ELSE << >>]

\* storage.get_materials
GetMaterialsResult(date) ==
    [op |-> "storage.get_materials", status |-> 200,
     body |-> IF redis.client
              THEN RedisGet(redis.mat, date, << >>).value
              ELSE IF ReadCsv(material_log).status = "ok"
              THEN SelectSeq(material_log.rows, LAMBDA r : r.date = date)
              ELSE << >>]

ReadRequest(date, shift) ==
    [date |-> date, shift |-> shift, parts |-> << >>, replaced |-> FALSE]

StorageGetAttendance(date, shift) ==
    /\ pc = "idle"
    /\ response' = GetAttendanceResult(date, shift)
    /\ request' = ReadRequest(date, shift)
    /\ UNCHANGED << employees, attendance_log, production_log, material_log,
                    redis, pc, latest >>
    /\ UNCHANGED attIdle

StorageGetProduction(date, shift) ==
    /\ pc = "idle"
    /\ response' = GetProductionResult(date, shift)
    /\ request' = ReadRequest(date, shift)
    /\ UNCHANGED << employees, attendance_log, production_log, material_log,
                    redis, pc, latest >>
    /\ UNCHANGED attIdle

StorageGetMaterials(date) ==
    /\ pc = "idle"
    /\ response' = GetMaterialsResult(date)
    /\ request' = ReadRequest(date, NoShift)
    /\ UNCHANGED << employees, attendance_log, production_log, material_log,
                    redis, pc, latest >>
    /\ UNCHANGED attIdle

----------------------------------------------------------------------------
(* app.py get_dashboard_data *)

work_areas == << "Autoclave", "CCA", "PAA", "Paint_Booth", "Prefit" >>

\* mutant: the work-area text compared as it is
NormAreaExact(a) == a

\* str.lower().replace('_', ' ') of the work-area texts of the model
NormArea(a) ==
    CASE a = "Autoclave" -> "autoclave"
      [] a \in {"CCA", "cca"} -> "cca"
      [] a = "PAA" -> "paa"
      [] a \in {"Paint_Booth", "Paint Booth", "paint_booth"} -> "paint booth"
      [] a \in {"Prefit", "prefit"} -> "prefit"
      [] OTHER -> a

RECURSIVE SumEff(_)
SumEff(rows) ==
    IF rows = << >> THEN 0 ELSE rows[1].efficiency + SumEff(Tail(rows))

\* sum(all_effs) / len(all_effs) if all_effs else 0, as a fraction
AvgEff(prod_rows, mat_rows) ==
    IF Len(prod_rows) + Len(mat_rows) = 0 THEN [num |-> 0, den |-> 1]
    ELSE [num |-> SumEff(prod_rows) + SumEff(mat_rows),
          den |-> Len(prod_rows) + Len(mat_rows)]

\* att_df[mask & present_mask]['emp_id'].nunique()
DashboardPresent(rows, date, shift) ==
    Cardinality({rows[i].emp_id : i \in
        {j \in 1..Len(rows) :
            /\ rows[j].date = date
            /\ shift # NoShift => rows[j].shift = shift
            /\ StrLowerEqTrue(CsvToBool(rows[j].present))}})

\* the response of app.py get_dashboard_data
DashboardResult(date, shift) ==
    LET prod == SafeReadCsv(production_log)
        mat == SafeReadCsv(material_log)
        att == SafeReadCsv(attendance_log)
        prod_df == ProductionRecords([rows |-> prod.rows], date, shift)
        mat_df == SelectSeq(mat.rows, LAMBDA r : r.date = date)
        present_count ==
            Min(DashboardPresent(att.rows, date, shift), MAX_EMPLOYEES)
    IN  IF \E df \in {prod, mat, att} : Raises(df)
        THEN ServerError("app.get_dashboard_data")
        ELSE [op |-> "app.get_dashboard_data", status |-> 200,
              body |-> [areas |->
                            [i \in 1..Len(work_areas) |->
                                AvgEff(SelectSeq(prod_df, LAMBDA r :
                                           NormArea(r.work_area)
                                               = NormArea(work_areas[i])),
                                       SelectSeq(mat_df, LAMBDA r :
                                           NormArea(r.work_area)
                                               = NormArea(work_areas[i])))],
                        attendance_present |-> present_count,
                        attendance_total |-> MAX_EMPLOYEES,
                        attendance_pct |-> PctTenths(present_count, MAX_EMPLOYEES)]]

AppGetDashboardData(date, shift) ==
    /\ pc = "idle"
    /\ response' = DashboardResult(date, shift)
    /\ request' = ReadRequest(date, shift)
    /\ UNCHANGED << employees, attendance_log, production_log, material_log,
                    redis, pc, latest >>
    /\ UNCHANGED attIdle

----------------------------------------------------------------------------
(* Read specification: every state of the files and of the store, one read *)
(* after another                                                           *)

AttendanceSample ==
    [exists |-> TRUE, header |-> TRUE,
     rows |-> << [date |-> "2026-01-01", shift |-> "Day", emp_id |-> "E1",
                  present |-> "True"],
                 [date |-> "2026-01-01", shift |-> "Day", emp_id |-> "E2",
                  present |-> "False"],
                 [date |-> "2026-01-01", shift |-> "Night", emp_id |-> "E2",
                  present |-> "True"] >>]

ProdRow(date, shift, part_id, area, plan, actual, eff) ==
    [date |-> date, shift |-> shift, part_id |-> part_id, work_area |-> area,
     plan_qty |-> plan, actual_qty |-> actual, efficiency |-> eff]

MatRow(date, part_id, area, eff) ==
    [date |-> date, program |-> "A", part_id |-> part_id, work_area |-> area,
     qty |-> 1, req |-> 2, actual |-> 2, efficiency |-> eff]

ProductionSample ==
    [exists |-> TRUE, header |-> TRUE,
     rows |-> << ProdRow("2026-01-01", "Day", "P1", "CCA", 2, 1, 50),
                 ProdRow("2026-01-01", "Night", "P1", "Paint_Booth", 2, 2, 100),
                 ProdRow("2026-01-02", "Day", "P3", "CCA", 1, 0, 0) >>]

MaterialSample ==
    [exists |-> TRUE, header |-> TRUE,
     rows |-> << MatRow("2026-01-01", "P1", "cca", 100),
                 MatRow("2026-01-02", "P1", "Paint Booth", 80) >>]

RedisSample(raises) ==
    [client |-> TRUE, raises |-> raises,
     att |-> (<< "2026-01-01", "Day" >> :> {<< "E1", TRUE >>, << "E2", FALSE >>}),
     prod |-> (<< "2026-01-01", "Day" >> :>
                  << ProdRow("2026-01-01", "Day", "P1", "CCA", 2, 1, 50) >>)
              @@ (<< "2026-01-01", "Night" >> :>
                  << ProdRow("2026-01-01", "Night", "P1", "PAA", 1, 1, 100) >>),
     mat |-> ("2026-01-01" :> << MatRow("2026-01-01", "P1", "CCA", 100) >>)]

RedisStates ==
    {NoRedis, [NoRedis EXCEPT !.client = TRUE],
     [NoRedis EXCEPT !.client = TRUE, !.raises = TRUE],
     RedisSample(FALSE), RedisSample(TRUE)}

InitRead ==
    /\ employees = DefaultRoster
    /\ attendance_log \in {AbsentFile, ZeroBytes, HeaderOnly, AttendanceSample}
    /\ production_log \in {AbsentFile, ZeroBytes, HeaderOnly, ProductionSample}
    /\ material_log \in {AbsentFile, ZeroBytes, HeaderOnly, MaterialSample}
    /\ redis \in RedisStates
    /\ pc = "idle"
    /\ variant = "app"
    /\ request = NoRequest
    /\ present_employees = << >>
    /\ total_tasks = << >>
    /\ idx = 1
    /\ assignment_employees = << >>
    /\ assignments = << >>
    /\ log_entries = << >>
    /\ picks = << >>
    /\ response = NoResponse
    /\ latest = << >>

NextRead ==
    \/ \E k \in Keys : StorageGetAttendance(k[1], k[2])
    \/ \E d \in Dates, sh \in Shifts \cup {NoShift} : StorageGetProduction(d, sh)
    \/ \E d \in Dates : StorageGetMaterials(d)
    \/ \E k \in Keys : GetAttendanceApp(k[1], k[2])
    \/ \E d \in Dates, sh \in Shifts \cup {NoShift} : AppGetDashboardData(d, sh)

SpecRead == InitRead /\ [][NextRead]_vars

----------------
(* Claims about the attendance handlers *)

\* the submission as a map: a set of (emp_id, present) pairs
AsMap(data) == {<< data[i].emp_id, data[i].present >> : i \in 1..Len(data)}

\* the log's rows of a date and shift, in file order, as (emp_id, cell) pairs
LoggedFor(k) ==
    LET hit == SelectSeq(attendance_log.rows,
                         LAMBDA r : r.date = k[1] /\ r.shift = k[2])
    IN  [i \in 1..Len(hit) |-> << hit[i].emp_id, hit[i].present >>]

\* the rows a submission should leave: one per employee, in its order
RowsOf(data) ==
    [i \in 1..Len(data) |->
        << data[i].emp_id, IF data[i].present THEN "True" ELSE "False" >>]

\* C7: the log's rows of every (date, shift) are the rows of the latest
\* submission for it, one per submitted employee; a submission for another
\* (date, shift) leaves them as they were.
C7_LastWriteWins ==
    /\ attendance_log.exists /\ attendance_log.header
    /\ \A k \in Keys : LoggedFor(k) = RowsOf(latest[k])
    /\ \A i \in 1..Len(attendance_log.rows) :
           << attendance_log.rows[i].date, attendance_log.rows[i].shift >> \in Keys

\* a resubmission for a date and shift while the other shift of that date and
\* another date hold rows
C7_Witness ==
    /\ request.replaced
    /\ request.parts # << >>
    /\ \A k \in Keys : latest[k] # << >>

\* C8: get_attendance returns the map of the latest submission for the date
\* and shift, and the empty map when there was none.
C8_RoundTrip ==
    response.op \in {"app.get_attendance", "api.get_attendance"} =>
        response.body.attendance =
            AsMap(latest[<< response.body.date, response.body.shift >>])

\* a read of a map with a present and an absent employee, other keys holding
\* other maps; and a read of a key never submitted while others were
C8_Witness ==
    /\ response.op = "api.get_attendance"
    /\ {TRUE, FALSE} \subseteq {m[2] : m \in response.body.attendance}
    /\ \E k \in Keys :
           /\ latest[k] # << >>
           /\ AsMap(latest[k]) # response.body.attendance
           /\ k[1] = response.body.date

\* the empty answer for a key never submitted, beside submitted ones
C8_WitnessEmpty ==
    /\ response.op = "app.get_attendance"
    /\ response.body.attendance = {}
    /\ \E k \in Keys : latest[k] # << >> /\ k[1] = response.body.date

\* C9: the count api/index.py returns is the number of employees marked
\* present in the submission just stored, whatever was submitted before.
C9_CountFromLatest ==
    response.op = "api.mark_attendance" =>
        response.body.count =
            Cardinality({m \in AsMap(latest[<< response.body.date,
                                               response.body.shift >>]) : m[2]})

\* a resubmission with fewer present than before, others present elsewhere
C9_Witness ==
    /\ response.op = "api.mark_attendance"
    /\ request.replaced
    /\ response.body.count = 1
    /\ Len(request.parts) = 2
    /\ \E k \in Keys :
           /\ k # << request.date, request.shift >>
           /\ k[1] = request.date
           /\ \E i \in 1..Len(latest[k]) : latest[k][i].present

----------------------------------------------------------------------------
(* Claims about the read operations *)

\* a log file that is absent or holds no rows
Missing(file) == ~file.exists \/ file.rows = << >>

\* C10: a read answers with empty data, and never fails, when its data is
\* missing: the storage reads when the CSV file is absent or empty, when the
\* Redis read raises or the key is not set; app.py's get_attendance and
\* get_dashboard_data when a log file is absent or empty.
C10_EmptyWhenMissing ==
    /\ response.op = "storage.get_attendance" =>
           /\ response.status = 200
           /\ (IF redis.client
               THEN redis.raises
                    \/ << request.date, request.shift >> \notin DOMAIN redis.att
               ELSE Missing(attendance_log)) => response.body = {}
    /\ response.op = "storage.get_production" =>
           /\ response.status = 200
           /\ (IF redis.client
               THEN redis.raises
                    \/ \A k \in DOMAIN redis.prod :
                           \/ k[1] # request.date
                           \/ request.shift \notin {NoShift, k[2]}
               ELSE Missing(production_log)) => response.body = << >>
    /\ response.op = "storage.get_materials" =>
           /\ response.status = 200
           /\ (IF redis.client
               THEN redis.raises \/ request.date \notin DOMAIN redis.mat
               ELSE Missing(material_log)) => response.body = << >>
    /\ response.op = "app.get_attendance" =>
           /\ response.status = 200
           /\ Missing(attendance_log) => response.body.attendance = {}
    /\ response.op = "app.get_dashboard_data" =>
           /\ response.status = 200
           /\ Missing(production_log) /\ Missing(material_log) =>
                  \A i \in 1..Len(work_areas) : response.body.areas[i].num = 0
           /\ Missing(attendance_log) =>
                  /\ response.body.attendance_present = 0
                  /\ response.body.attendance_pct = 0

\* a storage read that answers empty because the Redis read raised although
\* the key is set
C10_Witness ==
    /\ response.op = "storage.get_production"
    /\ redis.client /\ redis.raises
    /\ << request.date, request.shift >> \in DOMAIN redis.prod
    /\ response.body = << >>

\* the dashboard with every log file absent
C10_WitnessDashboard ==
    /\ response.op = "app.get_dashboard_data"
    /\ ~attendance_log.exists /\ ~production_log.exists /\ ~material_log.exists
    /\ response.status = 200

\* storage.get_attendance on the CSV backend with a file of no bytes
C10_WitnessCsv ==
    /\ response.op = "storage.get_attendance"
    /\ ~redis.client
    /\ attendance_log = ZeroBytes
    /\ response.body = {}

\* the reads do return data when it is there
C10_WitnessData ==
    /\ response.op = "app.get_dashboard_data"
    /\ response.body.areas[2].num > 0
    /\ response.body.attendance_present > 0

----------------------------------------------------------------------------
(* storage.py save_attendance, on the Redis and on the CSV backend *)

\* the attendance_dict arguments: maps emp_id -> present
AttendanceDicts ==
    {d \in Submissions :
        \/ Len(d) = 0
        \/ Len(d) = 1 /\ d[1].emp_id = EmpIds[1]
        \/ Len(d) = 2 /\ d[1].present # d[2].present}

\* json.dumps(attendance_dict) as json.loads gives it back: string keys and
\* true / false values, as a set of (emp_id, present) pairs
JsonDict(data) ==
    {<< data[i].emp_id, (IF data[i].present THEN "true" ELSE "false") = "true" >> :
        i \in 1..Len(data)}

\* mutant: the new rows appended to the file as it is
SaveAttendanceAppend(file, date, shift, data) ==
    [exists |-> TRUE, header |-> TRUE,
     rows |-> (IF ReadCsv(file).status = "ok" THEN file.rows ELSE << >>)
              \o NewRows(date, shift, data)]

\* the CSV branch of save_attendance: the rows of other dates and shifts of
\* a readable file, then the new rows, written with the header; a file that
\* is absent, empty or unreadable counts for an empty frame
SaveAttendanceFile(file, date, shift, data) ==
    [exists |-> TRUE, header |-> TRUE,
     rows |-> (IF ReadCsv(file).status = "ok"
               THEN DropKey(file.rows, date, shift)
               ELSE << >>)
              \o NewRows(date, shift, data)]

\* the arguments, and whether the store held an entry for the date and shift
SaveRequest(date, shift, data) ==
    [date |-> date, shift |-> shift, parts |-> data,
     replaced |-> IF redis.client
                  THEN << date, shift >> \in DOMAIN redis.att
                  ELSE \E i \in 1..Len(attendance_log.rows) :
                          /\ attendance_log.rows[i].date = date
                          /\ attendance_log.rows[i].shift = shift]

StorageResult(op, value) == [op |-> op, status |-> 200, body |-> value]

\* storage.save_attendance
StorageSaveAttendance(date, shift, data) ==
    /\ pc = "idle"
    /\ IF redis.client
       THEN IF redis.raises
            THEN /\ response' = StorageResult("storage.save_attendance", FALSE)
                 /\ UNCHANGED << redis, attendance_log, latest >>
            ELSE /\ redis' = [redis EXCEPT !.att =
                                 (<< date, shift >> :> JsonDict(data)) @@ @]
                 /\ response' = StorageResult("storage.save_attendance", TRUE)
                 /\ latest' = Submitted(date, shift, data)
                 /\ UNCHANGED attendance_log
       ELSE /\ attendance_log' =
                   SaveAttendanceFile(attendance_log, date, shift, data)
            /\ response' = StorageResult("storage.save_attendance", TRUE)
            /\ latest' = Submitted(date, shift, data)
            /\ UNCHANGED redis
    /\ request' = SaveRequest(date, shift, data)
    /\ UNCHANGED << employees, production_log, material_log, pc >>
    /\ UNCHANGED attIdle

\* the calls of the Redis client start or stop raising (the except branches)
RedisFails ==
    /\ pc = "idle"
    /\ redis.client
    /\ redis' = [redis EXCEPT !.raises = ~@]
    /\ UNCHANGED << employees, attendance_log, production_log, material_log,
                    pc, request, response, latest >>
    /\ UNCHANGED attIdle

InitStoreAtt ==
    /\ employees = DefaultRoster
    /\ attendance_log \in {AbsentFile, ZeroBytes, HeaderOnly}
    /\ production_log = AbsentFile
    /\ material_log = AbsentFile
    /\ redis \in {NoRedis, [NoRedis EXCEPT !.client = TRUE]}
    /\ pc = "idle"
    /\ variant = "app"
    /\ request = NoRequest
    /\ present_employees = << >>
    /\ total_tasks = << >>
    /\ idx = 1
    /\ assignment_employees = << >>
    /\ assignments = << >>
    /\ log_entries = << >>
    /\ picks = << >>
    /\ response = NoResponse
    /\ latest = [k \in Keys |-> << >>]

NextStoreAtt ==
    \/ \E k \in Keys, data \in AttendanceDicts :
           StorageSaveAttendance(k[1], k[2], data)
    \/ \E k \in Keys : StorageGetAttendance(k[1], k[2])
    \/ RedisFails

SpecStoreAtt == InitStoreAtt /\ [][NextStoreAtt]_vars

\* C11: on the Redis and on the CSV backend, a get_attendance whose read of
\* the store does not raise returns the map of the most recent successful
\* save_attendance for its date and shift (the empty map when there was
\* none), whatever was saved for other dates and shifts before or after it.
C11_StorageLastWriteWins ==
    [][(/\ response'.op = "storage.get_attendance"
        /\ << request', response' >> # << request, response >>
        /\ ~(redis.client /\ redis.raises))
       => response'.body = AsMap(latest[<< request'.date, request'.shift >>])]_vars

\* a read that returns a saved map with a present and an absent employee
\* while the other shift of its date holds another map, on the CSV backend
C11_Witness ==
    /\ response.op = "storage.get_attendance"
    /\ ~redis.client
    /\ {TRUE, FALSE} \subseteq {m[2] : m \in response.body}
    /\ \E k \in Keys :
           /\ k[1] = request.date /\ k[2] # request.shift
           /\ latest[k] # << >>
           /\ AsMap(latest[k]) # response.body

\* the same on the Redis backend, after a save that failed
C11_WitnessRedis ==
    /\ response.op = "storage.get_attendance"
    /\ redis.client /\ ~redis.raises
    /\ response.body # {}
    /\ Cardinality(DOMAIN redis.att) > 1

\* a successful save over an earlier one of the same date and shift
C11_WitnessReplaced ==
    /\ response.op = "storage.save_attendance"
    /\ response.body
    /\ request.replaced
    /\ AsMap(request.parts) # {}

----------------------------------------------------------------------------
(* Claims about the production log written by plan_production *)

\* how many entries of a sequence equal x
CountOf(s, x) == Cardinality({i \in 1..Len(s) : s[i] = x})

\* the log row the plan of an item should leave
PlannedRow(date, shift, item) ==
    [date |-> date, shift |-> shift, part_id |-> item.part_id,
     work_area |-> item.work_area, plan_qty |-> item.quantity,
     actual_qty |-> 0, efficiency |-> 0]

\* C12: a completed plan_production leaves one production-log row per planned
\* task, and the rows carry the tasks' own part_id, work_area and planned
\* quantity with the request's date and shift, actual_qty 0 and efficiency 0:
\* as many rows of each kind as the request has items of that kind.
C12_RowPerTask ==
    pc = "done" =>
        /\ Len(production_log.rows) = Len(total_tasks)
        /\ \A i \in 1..Len(request.parts) :
               CountOf(production_log.rows,
                       PlannedRow(request.date, request.shift, request.parts[i]))
                   = CountOf(request.parts, request.parts[i])

----------------------------------------------------------------------------
(* The production log: save_production_plan and update_production_actual   *)
(* of storage.py, update_production_actual of app.py and api/index.py      *)
(* (the handler's code is the same in both)                                *)

MaxRows == 3

ProdKeys == {PlanKey, << "2026-01-01", "Night" >>}
ProdItems == {it \in Items : it.part_id = "P1"}
Actuals == {3}
Plans == {0, 2}

\* an entry of a plan as plan_production prepares it
PlanEntry(date, shift, item) ==
    [date |-> date, shift |-> shift, part_id |-> item.part_id,
     work_area |-> item.work_area, plan_qty |-> item.quantity,
     actual_qty |-> 0, efficiency |-> 0]

\* the entries arguments of save_production_plan
EntryLists(date, shift) ==
    UNION {[1..n -> {PlanEntry(date, shift, it) : it \in ProdItems}] : n \in 0..2}

\* (actual / plan * 100) if plan > 0 else 0; the quotient is exact for the
\* plans of the model
Efficiency(actual, plan) ==
    IF plan > 0 THEN (actual * 100) \div plan ELSE 0

\* mask = (date) & (shift) & (part_id) & (work_area)
Mask(r, date, shift, part_id, area) ==
    /\ r.date = date /\ r.shift = shift
    /\ r.part_id = part_id /\ r.work_area = area

\* mutant: the mask without the work area
SetWhereAnyArea(rows, date, shift, part_id, area, actual, efficiency) ==
    [i \in 1..Len(rows) |->
        IF rows[i].date = date /\ rows[i].shift = shift /\ rows[i].part_id = part_id
        THEN [rows[i] EXCEPT !.actual_qty = actual, !.efficiency = efficiency]
        ELSE rows[i]]

\* df.loc[mask, 'actual_qty'] = actual; df.loc[mask, 'efficiency'] = efficiency
SetWhere(rows, date, shift, part_id, area, actual, efficiency) ==
    [i \in 1..Len(rows) |->
        IF Mask(rows[i], date, shift, part_id, area)
        THEN [rows[i] EXCEPT !.actual_qty = actual, !.efficiency = efficiency]
        ELSE rows[i]]

UpdateRequest(date, shift, part_id, area, actual, plan) ==
    [date |-> date, shift |-> shift,
     parts |-> << [part_id |-> part_id, work_area |-> area, actual |-> actual,
                   plan |-> plan] >>,
     replaced |-> FALSE]

\* update_production_actual of app.py and of api/index.py; init_csvs has
\* created the file, if there was none, before a request is served
UpdateProductionActual(date, shift, part_id, area, actual, plan) ==
    /\ pc = "idle"
    /\ production_log.exists
    /\ LET efficiency == Efficiency(actual, plan)
           df == ReadCsv(production_log)
           any == \E i \in 1..Len(df.rows) :
                      Mask(df.rows[i], date, shift, part_id, area)
       IN  IF df.status # "ok"
           THEN /\ response' = ServerError("update_production_actual")
                /\ UNCHANGED production_log
           ELSE IF any
           THEN /\ production_log' =
                       [production_log EXCEPT !.rows =
                           SetWhere(df.rows, date, shift, part_id, area,
                                    actual, efficiency)]
                /\ response' = [op |-> "update_production_actual", status |-> 200,
                                body |-> [status |-> "updated",
                                          efficiency |-> efficiency]]
           ELSE /\ response' = [op |-> "update_production_actual", status |-> 200,
                                body |-> [status |-> "not found",
                                          efficiency |-> 0]]
                /\ UNCHANGED production_log
    /\ request' = UpdateRequest(date, shift, part_id, area, actual, plan)
    /\ UNCHANGED << employees, attendance_log, material_log, redis, pc, latest >>
    /\ UNCHANGED attIdle

\* the number of records the store holds over all its keys
RECURSIVE StoredCount(_)
StoredCount(store) ==
    IF DOMAIN store = {} THEN 0
    ELSE LET k == CHOOSE x \in DOMAIN store : TRUE
         IN  Len(store[k])
             + StoredCount([x \in DOMAIN store \ {k} |-> store[x]])

\* storage.save_production_plan
StorageSaveProductionPlan(date, shift, entries) ==
    /\ pc = "idle"
    /\ IF redis.client
       THEN /\ StoredCount(redis.prod) + Len(entries) <= MaxRows
            /\ LET data == RedisGet(redis.prod, << date, shift >>, << >>)
               IN  IF data.status = "raised"
                   THEN /\ response' = StorageResult("storage.save_production_plan",
                                                     FALSE)
                        /\ UNCHANGED redis
                   ELSE /\ redis' = [redis EXCEPT !.prod =
                                        (<< date, shift >> :> (data.value \o entries))
                                        @@ @]
                        /\ response' = StorageResult("storage.save_production_plan",
                                                     TRUE)
            /\ UNCHANGED production_log
       ELSE /\ Len(production_log.rows) + Len(entries) <= MaxRows
            /\ production_log' = AppendCsv(production_log, entries)
            /\ response' = StorageResult("storage.save_production_plan", TRUE)
            /\ UNCHANGED redis
    /\ request' = [date |-> date, shift |-> shift, parts |-> entries,
                   replaced |-> FALSE]
    /\ UNCHANGED << employees, attendance_log, material_log, pc, latest >>
    /\ UNCHANGED attIdle

\* the loop over records: the first record of the part and work area is set
RECURSIVE SetFirst(_, _, _, _, _)
SetFirst(records, part_id, area, actual_qty, efficiency) ==
    IF records = << >> THEN << >>
    ELSE IF records[1].part_id = part_id /\ records[1].work_area = area
    THEN << [records[1] EXCEPT !.actual_qty = actual_qty,
                               !.efficiency = efficiency] >> \o Tail(records)
    ELSE << records[1] >>
         \o SetFirst(Tail(records), part_id, area, actual_qty, efficiency)

\* storage.update_production_actual; an exception of the CSV branch, which
\* has no except clause, leaves the function
StorageUpdateProductionActual(date, shift, part_id, area, actual_qty, efficiency) ==
    /\ pc = "idle"
    /\ IF redis.client
       THEN LET data == RedisGet(redis.prod, << date, shift >>, << >>)
                updated == \E i \in 1..Len(data.value) :
                               /\ data.value[i].part_id = part_id
                               /\ data.value[i].work_area = area
            IN  /\ redis' =
                       IF updated
                       THEN [redis EXCEPT !.prod[<< date, shift >>] =
                                SetFirst(data.value, part_id, area, actual_qty,
                                         efficiency)]
                       ELSE redis
                /\ response' = StorageResult("storage.update_production_actual",
                                             updated)
                /\ UNCHANGED production_log
       ELSE LET df == ReadCsv(production_log)
                any == \E i \in 1..Len(df.rows) :
                           Mask(df.rows[i], date, shift, part_id, area)
            IN  /\ IF ~production_log.exists
                   THEN /\ response' =
                               StorageResult("storage.update_production_actual", FALSE)
                        /\ UNCHANGED production_log
                   ELSE IF df.status # "ok"
                   THEN /\ response' = ServerError("storage.update_production_actual")
                        /\ UNCHANGED production_log
                   ELSE /\ response' =
                               StorageResult("storage.update_production_actual", any)
                        /\ production_log' =
                               IF any
                               THEN [production_log EXCEPT !.rows =
                                        SetWhere(df.rows, date, shift, part_id,
                                                 area, actual_qty, efficiency)]
                               ELSE production_log
                /\ UNCHANGED redis
    /\ request' = [date |-> date, shift |-> shift,
                   parts |-> << [part_id |-> part_id, work_area |-> area,
                                 actual |-> actual_qty, plan |-> efficiency] >>,
                   replaced |-> FALSE]
    /\ UNCHANGED << employees, attendance_log, material_log, pc, latest >>
    /\ UNCHANGED attIdle

\* the files as init_csvs leaves them for the handlers, or not yet written
\* by storage.py
InitProd ==
    /\ employees = DefaultRoster
    /\ attendance_log = HeaderOnly
    /\ production_log \in {AbsentFile, HeaderOnly}
    /\ material_log = HeaderOnly
    /\ redis \in {NoRedis, [NoRedis EXCEPT !.client = TRUE]}
    /\ pc = "idle"
    /\ variant = "app"
    /\ request = NoRequest
    /\ present_employees = << >>
    /\ total_tasks = << >>
    /\ idx = 1
    /\ assignment_employees = << >>
    /\ assignments = << >>
    /\ log_entries = << >>
    /\ picks = << >>
    /\ response = NoResponse
    /\ latest = << >>

NextProd ==
    \/ \E k \in ProdKeys : \E entries \in EntryLists(k[1], k[2]) :
           StorageSaveProductionPlan(k[1], k[2], entries)
    \/ \E k \in ProdKeys, part_id \in {"P1", "P3"}, area \in {"CCA", "PAA"},
          actual \in Actuals, plan \in Plans :
           UpdateProductionActual(k[1], k[2], part_id, area, actual, plan)
    \/ \E k \in ProdKeys, part_id \in {"P1", "P3"}, area \in {"CCA", "PAA"},
          actual \in Actuals, plan \in {p \in Plans : p > 0} :
           StorageUpdateProductionActual(k[1], k[2], part_id, area, actual,
                                         Efficiency(actual, plan))
    \/ RedisFails

SpecProd == InitProd /\ [][NextProd]_vars

----------------------------------------------------------------------------
(* Claims about update_production_actual *)

UpdateOps == {"update_production_actual", "storage.update_production_actual"}

\* the step is a call of update_production_actual
UpdateStep ==
    /\ response'.op \in UpdateOps
    /\ << request', response' >> # << request, response >>

\* the store the call looks at holds no record of the call's date, shift,
\* part and work area
NoStoredMatch ==
    LET u == request'.parts[1]
        key == << request'.date, request'.shift >>
    IN  IF response'.op = "storage.update_production_actual" /\ redis.client
        THEN key \in DOMAIN redis.prod =>
                 \A i \in 1..Len(redis.prod[key]) :
                     ~(/\ redis.prod[key][i].part_id = u.part_id
                       /\ redis.prod[key][i].work_area = u.work_area)
        ELSE \A i \in 1..Len(production_log.rows) :
                 ~(/\ production_log.rows[i].date = request'.date
                   /\ production_log.rows[i].shift = request'.shift
                   /\ production_log.rows[i].part_id = u.part_id
                   /\ production_log.rows[i].work_area = u.work_area)

\* the call answers "not found" (False in storage.py) and stores nothing
NotFoundUnchanged ==
    /\ response'.status = 200
    /\ IF response'.op = "storage.update_production_actual"
       THEN response'.body = FALSE
       ELSE response'.body.status = "not found"
    /\ production_log' = production_log
    /\ redis' = redis

\* C13: an update_production_actual whose date, shift, part and work area
\* match no stored production record reports "not found" (False in
\* storage.py) and leaves the stored records as they were.
C13_NotFoundUnchanged ==
    [][UpdateStep /\ NoStoredMatch => NotFoundUnchanged]_vars

\* the same, for the calls that find no production log file, or one that
\* pd.read_csv can parse, or that go to Redis: this much holds
NotFoundWhenReadable ==
    [][(/\ UpdateStep
        /\ NoStoredMatch
        /\ \/ response'.op = "storage.update_production_actual" /\ redis.client
           \/ ~production_log.exists
           \/ production_log.header)
       => NotFoundUnchanged]_vars

\* a "not found" beside stored records of the same part in another work area
\* and of another shift
NotFoundWitness ==
    /\ response.op \in UpdateOps
    /\ response.status = 200
    /\ response.op = "update_production_actual"
    /\ response.body.status = "not found"
    /\ request.parts[1].part_id = "P1"
    /\ Len(production_log.rows) > 1

\* the request's record matches the row
Matches(r, req) ==
    /\ r.date = req.date /\ r.shift = req.shift
    /\ r.part_id = req.parts[1].part_id
    /\ r.work_area = req.parts[1].work_area

\* C14: a successful update_production_actual of app.py / api/index.py
\* answers with efficiency = actual / plan * 100 (0 when plan is not greater
\* than 0), sets actual_qty to the submitted actual and efficiency to that
\* value on the rows matching (date, shift, part_id, work_area), and leaves
\* everything else: plan_qty of the matching rows, every field of the other
\* rows, the number and the order of the rows.
C14_UpdateSetsOnlyMatching ==
    [][(/\ response'.op = "update_production_actual"
        /\ << request', response' >> # << request, response >>
        /\ response'.status = 200
        /\ response'.body.status = "updated")
       => LET u == request'.parts[1]
              e == response'.body.efficiency
          IN  /\ IF u.plan > 0 THEN e * u.plan = u.actual * 100 ELSE e = 0
              /\ production_log'.exists = production_log.exists
              /\ production_log'.header = production_log.header
              /\ Len(production_log'.rows) = Len(production_log.rows)
              /\ \E i \in 1..Len(production_log.rows) :
                     Matches(production_log.rows[i], request')
              /\ \A i \in 1..Len(production_log.rows) :
                     production_log'.rows[i] =
                         IF Matches(production_log.rows[i], request')
                         THEN [production_log.rows[i] EXCEPT
                                  !.actual_qty = u.actual, !.efficiency = e]
                         ELSE production_log.rows[i]]_vars

\* an update with plan > 0 that set two rows of the same part and work area,
\* beside a row of the same part in another work area that was never updated
C14_Witness ==
    /\ response.op = "update_production_actual"
    /\ response.status = 200
    /\ response.body.status = "updated"
    /\ response.body.efficiency > 0
    /\ Cardinality({i \in 1..Len(production_log.rows) :
           /\ Matches(production_log.rows[i], request)
           /\ production_log.rows[i].actual_qty = request.parts[1].actual
           /\ production_log.rows[i].efficiency = response.body.efficiency}) = 2
    /\ \E i \in 1..Len(production_log.rows) :
           /\ production_log.rows[i].date = request.date
           /\ production_log.rows[i].shift = request.shift
           /\ production_log.rows[i].part_id = request.parts[1].part_id
           /\ production_log.rows[i].work_area # request.parts[1].work_area
           /\ production_log.rows[i].actual_qty = 0

\* an update with plan = 0 over an earlier update: efficiency back to 0
C14_WitnessZeroPlan ==
    /\ response.op = "update_production_actual"
    /\ response.status = 200
    /\ response.body.status = "updated"
    /\ request.parts[1].plan = 0
    /\ \E i \in 1..Len(production_log.rows) :
           /\ Matches(production_log.rows[i], request)
           /\ production_log.rows[i].actual_qty > 0
           /\ production_log.rows[i].efficiency = 0
    /\ \E i \in 1..Len(production_log.rows) :
           production_log.rows[i].efficiency > 0

----------------------------------------------------------------------------
(* The appending saves: save_production_plan and save_materials of         *)
(* storage.py, save_material and plan_production of app.py / api/index.py  *)

\* the materials of a save_material request; efficiency arrives as text
MaterialItems ==
    {[program |-> "A", part_id |-> "P1", work_area |-> "CCA", qty |-> 1,
      req |-> 2, actual |-> 2, efficiency |-> "100%"],
     [program |-> "A", part_id |-> "P1", work_area |-> "Paint Booth", qty |-> 1,
      req |-> 2, actual |-> 2, efficiency |-> "80"]}

\* an item whose efficiency text is no number
BadMaterialItem ==
    [program |-> "A", part_id |-> "P1", work_area |-> "CCA", qty |-> 1,
     req |-> 2, actual |-> 2, efficiency |-> "n/a"]

MaterialLists ==
    UNION {[1..n -> MaterialItems] : n \in 0..2}
    \cup {<< it, BadMaterialItem >> : it \in {m \in MaterialItems :
                                                  m.work_area = "CCA"}}

\* item['efficiency'].replace('%', '')
StripPercent(text) ==
    CASE text = "100%" -> "100"
      [] OTHER -> text

\* float(text) raises ValueError
FloatRaises(text) == text \notin {"100", "80"}

\* float(text)
Float(text) == IF text = "100" THEN 100 ELSE 80

\* the rows save_material builds from the request
MaterialRows(date_str, materials) ==
    [i \in 1..Len(materials) |->
        [date |-> date_str, program |-> materials[i].program,
         part_id |-> materials[i].part_id,
         work_area |-> materials[i].work_area, qty |-> materials[i].qty,
         req |-> materials[i].req, actual |-> materials[i].actual,
         efficiency |-> Float(StripPercent(materials[i].efficiency))]]

\* save_material of app.py and of api/index.py (the same code)
SaveMaterial(date_str, materials) ==
    /\ pc = "idle"
    /\ IF \E i \in 1..Len(materials) :
              FloatRaises(StripPercent(materials[i].efficiency))
       THEN /\ response' = ServerError("save_material")
            /\ UNCHANGED material_log
       ELSE LET rows == MaterialRows(date_str, materials)
            IN  /\ material_log' = AppendCsv(material_log, rows)
                /\ response' = [op |-> "save_material", status |-> 200,
                                body |-> [status |-> "success",
                                          count |-> Len(rows)]]
    /\ request' = [date |-> date_str, shift |-> "", parts |-> materials,
                   replaced |-> FALSE]
    /\ UNCHANGED << employees, attendance_log, production_log, redis, pc,
                    latest >>
    /\ UNCHANGED attIdle

\* the entries arguments of save_materials
MaterialEntryLists(date) ==
    UNION {[1..n -> {MatRow(date, "P1", "CCA", 100),
                     MatRow(date, "P1", "Paint Booth", 80)}] : n \in 0..2}

\* storage.save_materials
StorageSaveMaterials(date, entries) ==
    /\ pc = "idle"
    /\ IF redis.client
       THEN /\ LET data == RedisGet(redis.mat, date, << >>)
               IN  IF data.status = "raised"
                   THEN /\ response' = StorageResult("storage.save_materials",
                                                     FALSE)
                        /\ UNCHANGED redis
                   ELSE /\ redis' = [redis EXCEPT !.mat =
                                        (date :> (data.value \o entries)) @@ @]
                        /\ response' = StorageResult("storage.save_materials",
                                                     TRUE)
            /\ UNCHANGED material_log
       ELSE /\ material_log' = AppendCsv(material_log, entries)
            /\ response' = StorageResult("storage.save_materials", TRUE)
            /\ UNCHANGED redis
    /\ request' = [date |-> date, shift |-> "", parts |-> entries,
                   replaced |-> FALSE]
    /\ UNCHANGED << employees, attendance_log, production_log, pc, latest >>
    /\ UNCHANGED attIdle

\* plan_production has returned or raised: its locals are gone and the next
\* request is served
PlanServed ==
    /\ pc \in {"done", "crashed"}
    /\ pc' = "idle"
    /\ present_employees' = << >>
    /\ total_tasks' = << >>
    /\ idx' = 1
    /\ assignment_employees' = << >>
    /\ assignments' = << >>
    /\ log_entries' = << >>
    /\ picks' = << >>
    /\ UNCHANGED << employees, attendance_log, production_log, material_log,
                    redis, variant, request, response, latest >>

\* the records held by the two log files and by the store
StoredTotal ==
    Len(production_log.rows) + Len(material_log.rows)
    + StoredCount(redis.prod) + StoredCount(redis.mat)

\* the log files as init_csvs leaves them, or not yet written by storage.py
InitAppend ==
    /\ employees = DefaultRoster
    /\ attendance_log = AttendanceSample
    /\ production_log \in {AbsentFile, HeaderOnly}
    /\ material_log = production_log
    /\ redis \in {NoRedis, [NoRedis EXCEPT !.client = TRUE]}
    /\ pc = "idle"
    /\ variant = "app"
    /\ request = NoRequest
    /\ present_employees = << >>
    /\ total_tasks = << >>
    /\ idx = 1
    /\ assignment_employees = << >>
    /\ assignments = << >>
    /\ log_entries = << >>
    /\ picks = << >>
    /\ response = NoResponse
    /\ latest = << >>

\* the handlers write the CSV files whatever the backend of storage.py is,
\* and storage.py on Redis never touches the files: the handlers are run in
\* the behaviours without a Redis client
NextAppend ==
    \/ \E k \in ProdKeys : \E entries \in EntryLists(k[1], k[2]) :
           /\ StoredTotal + Len(entries) <= MaxRows
           /\ StorageSaveProductionPlan(k[1], k[2], entries)
    \/ \E d \in Dates : \E entries \in MaterialEntryLists(d) :
           /\ StoredTotal + Len(entries) <= MaxRows
           /\ StorageSaveMaterials(d, entries)
    \/ \E d \in Dates, materials \in MaterialLists :
           /\ ~redis.client
           /\ StoredTotal + Len(materials) <= MaxRows
           /\ SaveMaterial(d, materials)
    \/ \E v \in {"app", "api"}, selected_parts \in PartLists :
           /\ ~redis.client
           /\ Range(selected_parts) \subseteq ProdItems
           /\ StoredTotal + Len(selected_parts) <= MaxRows
           /\ PlanStart(v, PlanKey[1], PlanKey[2], selected_parts)
    \/ PlanTask
    \/ PlanFinish
    \/ PlanServed
    \/ RedisFails

SpecAppend == InitAppend /\ [][NextAppend]_vars

----------------------------------------------------------------------------
(* Claims about the appending saves *)

IsPrefix(a, b) == Len(a) <= Len(b) /\ SubSeq(b, 1, Len(a)) = a

\* every key keeps its records, in their order, at the head of its list
StoreKeeps(old, new) ==
    \A k \in DOMAIN old : k \in DOMAIN new /\ IsPrefix(old[k], new[k])

\* the records under a key, none when the key is not set
Under(store, k) == IF k \in DOMAIN store THEN store[k] ELSE << >>

\* the step is a call of the save named op
SaveStep(op) ==
    /\ response'.op = op
    /\ pc = "idle" /\ pc' = "idle"
    /\ redis'.raises = redis.raises

\* the step is a storage.py save that returned True
SavedBy(op) == SaveStep(op) /\ response'.body = TRUE

\* the rows at the tail of the material log are those of the request's
\* materials, in their order
TailIsMaterials(rows, date, materials) ==
    \A i \in 1..Len(materials) :
        LET r == rows[Len(rows) - Len(materials) + i]
        IN  /\ r.date = date
            /\ r.program = materials[i].program
            /\ r.part_id = materials[i].part_id
            /\ r.work_area = materials[i].work_area
            /\ r.qty = materials[i].qty
            /\ r.req = materials[i].req
            /\ r.actual = materials[i].actual
            /\ materials[i].efficiency \in {"100%", "100"} => r.efficiency = 100
            /\ materials[i].efficiency \in {"80%", "80"} => r.efficiency = 80

\* C15: the saves only append.  In every step the records of each log file
\* and of each Redis key are kept, unchanged and in their order, at the head
\* of what is stored afterwards; a successful save_production_plan or
\* save_materials stores exactly the old records followed by its entries in
\* the order given, under its own key or file, and nothing elsewhere;
\* plan_production appends its log entries, one per task; save_material
\* appends one row per item of the request, in order, and returns their number.
C15_AppendOnly ==
    [][/\ IsPrefix(production_log.rows, production_log'.rows)
       /\ IsPrefix(material_log.rows, material_log'.rows)
       /\ StoreKeeps(redis.prod, redis'.prod)
       /\ StoreKeeps(redis.mat, redis'.mat)
       /\ SavedBy("storage.save_production_plan") =>
              LET k == << request'.date, request'.shift >>
              IN  IF redis.client
                  THEN /\ redis'.prod[k] = Under(redis.prod, k) \o request'.parts
                       /\ \A j \in DOMAIN redis'.prod \ {k} :
                              redis'.prod[j] = Under(redis.prod, j)
                       /\ redis'.mat = redis.mat
                       /\ production_log' = production_log
                  ELSE /\ production_log'.rows =
                              production_log.rows \o request'.parts
                       /\ redis' = redis
       /\ SavedBy("storage.save_materials") =>
              LET k == request'.date
              IN  IF redis.client
                  THEN /\ redis'.mat[k] = Under(redis.mat, k) \o request'.parts
                       /\ \A j \in DOMAIN redis'.mat \ {k} :
                              redis'.mat[j] = Under(redis.mat, j)
                       /\ redis'.prod = redis.prod
                       /\ material_log' = material_log
                  ELSE /\ material_log'.rows = material_log.rows \o request'.parts
                       /\ redis' = redis
       /\ (SaveStep("save_material") /\ response'.status = 200) =>
              /\ response'.body.count = Len(request'.parts)
              /\ Len(material_log'.rows) =
                     Len(material_log.rows) + response'.body.count
              /\ TailIsMaterials(material_log'.rows, request'.date,
                                 request'.parts)
              /\ production_log' = production_log
       /\ (pc = "loop" /\ pc' = "done") =>
              /\ production_log'.rows = production_log.rows \o log_entries
              /\ Len(log_entries) = Len(total_tasks)
              /\ material_log' = material_log]_vars

\* a save_material of two different items, in their order, after a row that
\* was stored before
C15_Witness ==
    /\ response.op = "save_material"
    /\ response.status = 200
    /\ response.body.count = 2
    /\ Len(material_log.rows) = 3
    /\ material_log.rows[2].work_area # material_log.rows[3].work_area
    /\ material_log.rows[1].date # request.date

\* a plan of two tasks appended after a stored plan
C15_WitnessPlan ==
    /\ pc = "done"
    /\ Len(log_entries) = 2
    /\ Len(production_log.rows) = 3

\* a save_production_plan on Redis under a key that held a record, beside
\* another key
C15_WitnessRedis ==
    /\ response.op = "storage.save_production_plan"
    /\ response.body = TRUE
    /\ redis.client
    /\ << request.date, request.shift >> \in DOMAIN redis.prod
    /\ Len(redis.prod[<< request.date, request.shift >>]) > Len(request.parts)
    /\ request.parts # << >>
    /\ Cardinality(DOMAIN redis.prod) = 2

\* a save turned down because the Redis call raised
C15_WitnessFailed ==
    /\ response.op = "storage.save_materials"
    /\ response.body = FALSE
    /\ request.parts # << >>
    /\ redis.mat # << >>

----------------------------------------------------------------------------
(* api/index.py get_dashboard_data, and the dashboard specification *)

\* pd.read_csv(path) if os.path.exists(path) else pd.DataFrame()
ReadIfExists(file) ==
    IF file.exists THEN ReadCsv(file) ELSE [status |-> "ok", rows |-> << >>]

\* the response of api/index.py get_dashboard_data
ApiDashboardResult(date, shift) ==
    LET prod == ReadIfExists(production_log)
        mat == ReadIfExists(material_log)
        att == ReadIfExists(attendance_log)
        prod_df == ProductionRecords([rows |-> prod.rows], date, shift)
        mat_df == SelectSeq(mat.rows, LAMBDA r : r.date = date)
        present_count == DashboardPresent(att.rows, date, shift)
        total_employees == Len(employees)
    IN  IF \E df \in {prod, mat, att} : Raises(df)
        THEN ServerError("api.get_dashboard_data")
        ELSE [op |-> "api.get_dashboard_data", status |-> 200,
              body |-> [areas |->
                            [i \in 1..Len(work_areas) |->
                                AvgEff(SelectSeq(prod_df, LAMBDA r :
                                           NormArea(r.work_area)
                                               = NormArea(work_areas[i])),
                                       SelectSeq(mat_df, LAMBDA r :
                                           NormArea(r.work_area)
                                               = NormArea(work_areas[i])))],
                        attendance_present |-> present_count,
                        attendance_total |-> total_employees,
                        attendance_pct |-> PctTenths(present_count,
                                                     total_employees)]]

ApiGetDashboardData(date, shift) ==
    /\ pc = "idle"
    /\ response' = ApiDashboardResult(date, shift)
    /\ request' = ReadRequest(date, shift)
    /\ UNCHANGED << employees, attendance_log, production_log, material_log,
                    redis, pc, latest >>
    /\ UNCHANGED attIdle

\* rows the production log may hold after plans and updates
ProductionPool ==
    << ProdRow("2026-01-01", "Day", "P1", "CCA", 2, 1, 50),
       ProdRow("2026-01-01", "Day", "P1", "PAA", 1, 3, 300),
       ProdRow("2026-01-01", "Night", "P1", "CCA", 2, 3, 150),
       ProdRow("2026-01-02", "Day", "P1", "CCA", 2, 2, 100),
       ProdRow("2026-01-01", "Day", "P3", "Paint_Booth", 1, 0, 0) >>

\* rows the material log may hold; the work area is the text of the form
MaterialPool ==
    << MatRow("2026-01-01", "P1", "cca", 100),
       MatRow("2026-01-01", "P1", "Paint Booth", 80),
       MatRow("2026-01-02", "P1", "CCA", 80),
       MatRow("2026-01-01", "P3", "cca", 75) >>

\* the rows of a pool at the positions of keep, in the pool's order
RECURSIVE Pick(_, _, _)
Pick(pool, keep, i) ==
    IF i > Len(pool) THEN << >>
    ELSE (IF i \in keep THEN << pool[i] >> ELSE << >>) \o Pick(pool, keep, i + 1)

LogsOf(pool) ==
    {[exists |-> TRUE, header |-> TRUE, rows |-> Pick(pool, keep, 1)] :
        keep \in SUBSET (1..Len(pool))}

InitDash ==
    /\ employees = DefaultRoster
    /\ attendance_log \in {AbsentFile, AttendanceSample}
    /\ production_log \in LogsOf(ProductionPool) \cup {AbsentFile}
    /\ material_log \in LogsOf(MaterialPool) \cup {AbsentFile}
    /\ redis = NoRedis
    /\ pc = "idle"
    /\ variant = "app"
    /\ request = NoRequest
    /\ present_employees = << >>
    /\ total_tasks = << >>
    /\ idx = 1
    /\ assignment_employees = << >>
    /\ assignments = << >>
    /\ log_entries = << >>
    /\ picks = << >>
    /\ response = NoResponse
    /\ latest = << >>

NextDash ==
    \/ \E d \in Dates, sh \in Shifts \cup {NoShift} : AppGetDashboardData(d, sh)
    \/ \E d \in Dates, sh \in Shifts \cup {NoShift} : ApiGetDashboardData(d, sh)

SpecDash == InitDash /\ [][NextDash]_vars

----------------------------------------------------------------------------
(* Claims about the dashboard *)

\* the spellings of each work area: case ignored, '_' taken for a space
AreaSpellings ==
    {{"Autoclave", "autoclave"}, {"CCA", "cca"}, {"PAA", "paa"},
     {"Paint_Booth", "Paint Booth", "paint_booth", "paint booth"},
     {"Prefit", "prefit"}}

SameArea(a, b) == \E c \in AreaSpellings : a \in c /\ b \in c

\* the efficiency values the average of an area is taken over: those of the
\* production rows of the date (and shift, when one is given) and of the
\* material rows of the date whose work area is the area
RowsFor(area, date, shift) ==
    SelectSeq(production_log.rows, LAMBDA r :
        /\ r.date = date
        /\ shift = NoShift \/ r.shift = shift
        /\ SameArea(r.work_area, area))
    \o SelectSeq(material_log.rows, LAMBDA r :
        r.date = date /\ SameArea(r.work_area, area))

RECURSIVE Total(_)
Total(rows) ==
    IF Len(rows) = 0 THEN 0
    ELSE rows[Len(rows)].efficiency + Total(SubSeq(rows, 1, Len(rows) - 1))

\* C16: get_dashboard_data of app.py and of api/index.py returns for each of
\* the five work areas the plain average of the efficiency of the production
\* rows of the requested date (and shift, when given) and of the material
\* rows of the requested date whose work_area is the area, case ignored and
\* '_' taken for a space; 0 when there is no such row.
C16_AreaAverages ==
    (/\ response.op \in {"app.get_dashboard_data", "api.get_dashboard_data"}
     /\ response.status = 200)
    => /\ Len(response.body.areas) = 5
       /\ work_areas = << "Autoclave", "CCA", "PAA", "Paint_Booth", "Prefit" >>
       /\ \A i \in 1..Len(work_areas) :
              LET rows == RowsFor(work_areas[i], request.date, request.shift)
                  avg == response.body.areas[i]
              IN  IF rows = << >> THEN avg.num = 0
                  ELSE avg.num * Len(rows) = Total(rows) * avg.den

\* an average over a production row and two material rows spelt "cca", for
\* a date and shift, while the logs hold rows of the area for the other
\* shift and the other date, and rows of other areas
C16_Witness ==
    /\ response.op = "api.get_dashboard_data"
    /\ response.status = 200
    /\ request.shift = "Day"
    /\ response.body.areas[2].den = 3
    /\ response.body.areas[2].num = 225
    /\ response.body.areas[4].den = 2
    /\ Len(production_log.rows) = 5
    /\ Len(material_log.rows) = 4

\* the same without a shift: the rows of both shifts count
C16_WitnessNoShift ==
    /\ response.op = "app.get_dashboard_data"
    /\ response.status = 200
    /\ request.shift = NoShift
    /\ response.body.areas[2].den = 4
    /\ response.body.areas[1].num = 0
    /\ response.body.areas[1].den = 1

====
